---- MODULE Spec2Model ----
(***************************************************************************)
(* Model of script/merge-histories.js: the merge of a source branch's      *)
(* commit-history log and TDD log into the target branch's copies on the   *)
(* filesystem.                                                             *)
(*                                                                         *)
(* JavaScript objects are TLA+ records whose DOMAIN is the set of fields   *)
(* the object carries: an absent field reads as `undefined`.  A string is  *)
(* a TLA+ string, except where the code takes it apart or builds it        *)
(* (commit.url, the fallback identity of a TDD entry): there it is the     *)
(* sequence of its pieces.  A file is [st, data]: st = "ok" and data the   *)
(* parsed array, or st = "absent", or st = "bad" (content that JSON.parse  *)
(* rejects, an empty or partly written file included).                     *)
(***************************************************************************)
EXTENDS Integers, Sequences, FiniteSets, TLC

VARIABLES
    branchCommits,    \* sourcePaths.commitHistory as stored on the source branch
    branchTdd,        \* sourcePaths.tddLog as stored on the source branch
    fsCommits,        \* targetPaths.commitHistory on the filesystem
    fsTdd,            \* targetPaths.tddLog on the filesystem
    pc,               \* position of the running process
    sourceCommits, targetCommits, newCommits,
    sourceTddLog, targetTddLog, newTddEntries,
    errs,             \* what console.error has reported in this run
    exitCode,         \* exit status of the process
    run,              \* number of the current invocation
    faults,           \* external calls that have thrown so far (git, fs)
    prev              \* errs and exitCode of the previous invocation

vars == <<branchCommits, branchTdd, fsCommits, fsTdd, pc,
          sourceCommits, targetCommits, newCommits,
          sourceTddLog, targetTddLog, newTddEntries,
          errs, exitCode, run, faults, prev>>

files == <<branchCommits, branchTdd, fsCommits, fsTdd>>
commitLocals == <<sourceCommits, targetCommits, newCommits>>
tddLocals == <<sourceTddLog, targetTddLog, newTddEntries>>

-----------------------------------------------------------------------------
(* Bounds *)

MaxLen == 2      \* longest array a stored file holds before the first run
MaxRuns == 2     \* invocations of the tool in succession
MaxFaults == 2   \* git rev-parse and fs.writeFileSync calls that throw, in all

-----------------------------------------------------------------------------
(* JavaScript values *)

Has(r, f) == f \in DOMAIN r

\* Truthiness of a string-valued field: absent (undefined) and "" are falsy.
TruthyStr(r, f) == Has(r, f) /\ r[f] # ""

\* Truthiness of a number-valued field: absent (undefined) and 0 are falsy.
TruthyNum(r, f) == Has(r, f) /\ r[f] # 0

\* url.split('/commit/')[0]: the text before the first '/commit/', the whole
\* text when there is none.  A url is the sequence of its pieces, '/commit/'
\* being a piece of its own.
RECURSIVE SplitFirst(_)
SplitFirst(url) ==
    IF url = <<>> \/ Head(url) = "/commit/" THEN <<>>
    ELSE <<Head(url)>> \o SplitFirst(Tail(url))

\* new Date(s).getTime(), in seconds, of the date strings of the model: a
\* date-only ISO string is midnight UTC, so two spellings name one instant.
DateParse(s) ==
    CASE s = "2024-01-01" -> 1704067200
      [] s = "2024-01-02" -> 1704153600
      [] s = "2024-01-02T00:00:00Z" -> 1704153600
      [] s = "2024-01-03" -> 1704240000

\* `${n}` of a number, or of undefined.
NumStr(r, f) ==
    IF ~Has(r, f) THEN "undefined"
    ELSE CASE r[f] = 0 -> "0" [] r[f] = 1 -> "1" [] r[f] = 2 -> "2"
           [] r[f] = 3 -> "3" [] r[f] = 4 -> "4" [] r[f] = 5 -> "5"
           [] r[f] = 6 -> "6" [] r[f] = 7 -> "7" [] r[f] = 8 -> "8"
           [] r[f] = 9 -> "9"

StrOf(r, f) == IF Has(r, f) THEN r[f] ELSE "undefined"

\* The pieces of a commitId, as the template `${timestamp}-${testId}` would
\* have produced them: "5-t1" is the text of 5, "-" and "t1".
Pieces(s) ==
    CASE s = "5-t1" -> <<"5", "-", "t1">>
      [] OTHER -> <<s>>

-----------------------------------------------------------------------------
(* Storage and revision access *)

Absent == [st |-> "absent", data |-> <<>>]
Bad == [st |-> "bad", data |-> <<>>]
Stored(arr) == [st |-> "ok", data |-> arr]

\* readJsonFileFromFilesystem: [] when the path does not exist, [] (and an
\* error report) when the content does not parse.
readJsonFileFromFilesystem(file) == IF file.st = "ok" THEN file.data ELSE <<>>

\* readJsonFileFromBranch: `git show branch:path` parsed, [] (and an
\* informational line) when git show or JSON.parse throws.
readJsonFileFromBranch(file) == IF file.st = "ok" THEN file.data ELSE <<>>

\* What fs.writeFileSync(path, text) leaves on disk.  It opens the path with
\* flag 'w' and then writes the text: "ok" is the whole text written; "failed"
\* is an error of the open, before the file is touched; "truncated" is an
\* error of the write after the open has emptied the file.
WriteOutcomes == {"ok", "failed", "truncated"}

writeJsonFile(file, data, outcome) ==
    CASE outcome = "ok" -> Stored(data)
      [] outcome = "failed" -> file
      [] outcome = "truncated" -> Bad

\* The text `git rev-parse sourceBranch` prints, trimmed.
realSha == "d34db33f"

-----------------------------------------------------------------------------
(* Arrays *)

RemoveAt(arr, i) == SubSeq(arr, 1, i - 1) \o SubSeq(arr, i + 1, Len(arr))

\* arr.findIndex(c => c[field] === 'HEAD'), counted from 1; 0 stands for -1.
FindHead(arr, field) ==
    LET hits == {i \in DOMAIN arr : Has(arr[i], field) /\ arr[i][field] = "HEAD"}
    IN  IF hits = {} THEN 0 ELSE CHOOSE i \in hits : \A j \in hits : i <= j

-----------------------------------------------------------------------------
(* Commit history: lines 53-78 *)

\* Lines 53-67.  The try block assigns sha and then reads commit.url: on a
\* record without `commit` that read throws a TypeError inside the try, so
\* the catch removes the record as it does when git rev-parse throws.
ResolveHeadThrows(src, resolved) ==
    LET h == FindHead(src, "sha")
    IN  h > 0 /\ (~resolved \/ ~Has(src[h], "commit"))

\* Variant: sha is resolved, commit.url is left as it was.
ResolveCommitHead_UrlKept(src, resolved) ==
    LET h == FindHead(src, "sha")
    IN  IF h = 0 THEN src
        ELSE IF ResolveHeadThrows(src, resolved) THEN RemoveAt(src, h)
        ELSE [src EXCEPT ![h] = [@ EXCEPT !.sha = realSha]]

\* Variant: the catch reports the failure and leaves the record in the array.
ResolveCommitHead_RecordKept(src, resolved) ==
    LET h == FindHead(src, "sha")
    IN  IF h = 0 \/ ResolveHeadThrows(src, resolved) THEN src
        ELSE LET c == src[h].commit
             IN  IF Has(c, "url") /\ c.url # <<>>
                 THEN [src EXCEPT ![h] =
                        [sha |-> realSha,
                         commit |-> [c EXCEPT !.url =
                             SplitFirst(c.url) \o <<"/commit/", realSha>>]]]
                 ELSE [src EXCEPT ![h] = [@ EXCEPT !.sha = realSha]]

ResolveCommitHead(src, resolved) ==
    LET h == FindHead(src, "sha")
    IN  IF h = 0 THEN src
        ELSE IF ResolveHeadThrows(src, resolved) THEN RemoveAt(src, h)
        ELSE LET c == src[h].commit
             IN  IF Has(c, "url") /\ c.url # <<>>
                 THEN [src EXCEPT ![h] =
                        [sha |-> realSha,
                         commit |-> [c EXCEPT !.url =
                             SplitFirst(c.url) \o <<"/commit/", realSha>>]]]
                 ELSE [src EXCEPT ![h] = [@ EXCEPT !.sha = realSha]]

\* new Set(targetCommits.map(c => c.sha)).  The set also holds undefined
\* when a target record has no sha; no lookup ever asks for it, because a
\* source record with a falsy sha is skipped before the lookup.
TargetCommitShas(tgt) ==
    {tgt[i].sha : i \in {j \in DOMAIN tgt : Has(tgt[j], "sha")}}

\* Variant: the forEach without the test of sourceCommit.sha.
RECURSIVE AppendNewCommits_ShaUntested(_, _, _)
AppendNewCommits_ShaUntested(src, tgt, shas) ==
    IF src = <<>> THEN tgt
    ELSE LET c == Head(src)
         IN  IF ~(Has(c, "sha") /\ c.sha \in shas)
             THEN AppendNewCommits_ShaUntested(Tail(src), Append(tgt, c), shas)
             ELSE AppendNewCommits_ShaUntested(Tail(src), tgt, shas)

\* Lines 71-76: the forEach; the set is the one built before the loop.
RECURSIVE AppendNewCommits(_, _, _)
AppendNewCommits(src, tgt, shas) ==
    IF src = <<>> THEN tgt
    ELSE LET c == Head(src)
         IN  IF TruthyStr(c, "sha") /\ c.sha \notin shas
             THEN AppendNewCommits(Tail(src), Append(tgt, c), shas)
             ELSE AppendNewCommits(Tail(src), tgt, shas)

\* (a, b) => new Date(a.commit.date) - new Date(b.commit.date)
CompareCommits(a, b) == DateParse(a.commit.date) - DateParse(b.commit.date)

\* The comparator reads a.commit.date: a TypeError on a record without
\* `commit`.  sort calls the comparator on every element once the array has
\* two or more.
SortCommitsThrows(arr) ==
    Len(arr) >= 2 /\ \E i \in DOMAIN arr : ~Has(arr[i], "commit")

-----------------------------------------------------------------------------
(* TDD log: lines 89-110 *)

ResolveTddHead(src, resolved) ==
    LET h == FindHead(src, "commitId")
    IN  IF h = 0 THEN src
        ELSE IF resolved THEN [src EXCEPT ![h] = [@ EXCEPT !.commitId = realSha]]
        ELSE RemoveAt(src, h)

\* e.commitId ? e.commitId : `${e.timestamp}-${e.testId}`
TddUniqueId(e) ==
    IF TruthyStr(e, "commitId") THEN Pieces(e.commitId)
    ELSE <<NumStr(e, "timestamp"), "-", StrOf(e, "testId")>>

\* Variant: the set is built from commitId alone, without the fallback.
TargetTddEntries_CommitIdOnly(tgt) ==
    {Pieces(tgt[i].commitId) : i \in {j \in DOMAIN tgt : TruthyStr(tgt[j], "commitId")}}

TargetTddEntries(tgt) == {TddUniqueId(tgt[i]) : i \in DOMAIN tgt}

RECURSIVE AppendNewTddEntries(_, _, _)
AppendNewTddEntries(src, tgt, ids) ==
    IF src = <<>> THEN tgt
    ELSE IF TddUniqueId(Head(src)) \notin ids
         THEN AppendNewTddEntries(Tail(src), Append(tgt, Head(src)), ids)
         ELSE AppendNewTddEntries(Tail(src), tgt, ids)

\* a.commitTimestamp || a.timestamp
TddSortKey(e) ==
    IF TruthyNum(e, "commitTimestamp") THEN e.commitTimestamp ELSE e.timestamp

CompareTdd(a, b) == TddSortKey(a) - TddSortKey(b)

-----------------------------------------------------------------------------
(* Array.prototype.sort *)

\* The comparator of line 78 or of line 110.
Compare(kind, a, b) ==
    IF kind = "commits" THEN CompareCommits(a, b) ELSE CompareTdd(a, b)

\* arr.sort(comparator) with a comparator that is a consistent order: the
\* stable sort (elements that compare equal keep their order).
\* Variant: an unstable sort, which puts an element before those it compares
\* equal to.
RECURSIVE InsertSorted_Unstable(_, _, _)
InsertSorted_Unstable(sorted, x, kind) ==
    IF sorted = <<>> THEN <<x>>
    ELSE IF Compare(kind, x, sorted[Len(sorted)]) > 0 THEN Append(sorted, x)
    ELSE Append(InsertSorted_Unstable(SubSeq(sorted, 1, Len(sorted) - 1), x, kind),
                sorted[Len(sorted)])

RECURSIVE InsertSorted(_, _, _)
InsertSorted(sorted, x, kind) ==
    IF sorted = <<>> THEN <<x>>
    ELSE IF Compare(kind, x, sorted[Len(sorted)]) >= 0 THEN Append(sorted, x)
    ELSE Append(InsertSorted(SubSeq(sorted, 1, Len(sorted) - 1), x, kind),
                sorted[Len(sorted)])

RECURSIVE ArraySort(_, _)
ArraySort(arr, kind) ==
    IF arr = <<>> THEN <<>>
    ELSE InsertSorted(ArraySort(SubSeq(arr, 1, Len(arr) - 1), kind),
                      arr[Len(arr)], kind)

-----------------------------------------------------------------------------
(* The records the stored files are drawn from *)

\* A stored file that parses holds a JSON array of objects.  A commit record
\* may lack sha (or hold ""), commit.url, or the whole `commit` object; where
\* commit is present its date is a valid date string.  A TDD entry may lack
\* commitId (or hold ""), timestamp or commitTimestamp; one of the two
\* timestamps is always there to order it by.

cA == [sha |-> "a1", commit |-> [date |-> "2024-01-02",
                                 url |-> <<"https://x", "/commit/", "a1">>]]
cA2 == [sha |-> "a1", commit |-> [date |-> "2024-01-03"]]
cB == [sha |-> "b2", commit |-> [date |-> "2024-01-01",
                                 url |-> <<"https://x/tree/b2">>]]
cHead == [sha |-> "HEAD", commit |-> [date |-> "2024-01-02T00:00:00Z",
                                      url |-> <<"https://x", "/commit/", "abc">>]]
cHeadPlain == [sha |-> "HEAD", commit |-> [date |-> "2024-01-03"]]
cHeadTree == [sha |-> "HEAD", commit |-> [date |-> "2024-01-01",
                                          url |-> <<"https://x/tree/main">>]]
cHeadBare == [sha |-> "HEAD"]
cNoSha == [commit |-> [date |-> "2024-01-01"]]
cEmptySha == [sha |-> "", commit |-> [date |-> "2024-01-03"]]
cNoCommit == [sha |-> "c3"]
cTip == [sha |-> realSha, commit |-> [date |-> "2024-01-01"]]

SourceCommitPool == {cA2, cHead, cHeadPlain, cHeadTree, cHeadBare, cNoSha, cEmptySha}
TargetCommitPool == {cA, cNoSha, cNoCommit, cTip}

tA == [commitId |-> "a1", timestamp |-> 5, testId |-> "t1"]
tA2 == [commitId |-> "a1", commitTimestamp |-> 3, timestamp |-> 9, testId |-> "t2"]
tHead == [commitId |-> "HEAD", timestamp |-> 4, testId |-> "t1"]
tFallback == [timestamp |-> 5, testId |-> "t1"]
tCollide == [commitId |-> "5-t1", timestamp |-> 2, testId |-> "t2"]
tZero == [commitId |-> "b2", commitTimestamp |-> 0, timestamp |-> 7, testId |-> "t2"]
tNoTs == [commitTimestamp |-> 6, testId |-> "t1"]
tEmptyId == [commitId |-> "", timestamp |-> 8, testId |-> "t1"]
tTip == [commitId |-> realSha, commitTimestamp |-> 1, testId |-> "t2"]

SourceTddPool == {tA2, tHead, tFallback, tZero, tNoTs, tEmptyId}
TargetTddPool == {tA, tCollide, tFallback, tTip}

SeqsUpTo(S, n) == UNION {[1..k -> S] : k \in 0..n}
Files(S) == {Absent, Bad} \cup {Stored(a) : a \in SeqsUpTo(S, MaxLen)}

-----------------------------------------------------------------------------
(* The process *)

NoRun == [errs |-> {}, exitCode |-> 0, ran |-> FALSE]

Fresh ==
    /\ pc = "main"
    /\ sourceCommits = <<>> /\ targetCommits = <<>> /\ newCommits = 0
    /\ sourceTddLog = <<>> /\ targetTddLog = <<>> /\ newTddEntries = 0
    /\ errs = {} /\ exitCode = 0

\* Either log varies over every stored content; the other holds one entry.
Init ==
    /\ Fresh
    /\ run = 1 /\ faults = 0 /\ prev = NoRun
    /\ \/ /\ branchCommits \in Files(SourceCommitPool)
          /\ fsCommits \in Files(TargetCommitPool)
          /\ branchTdd = Stored(<<tFallback>>)
          /\ fsTdd = Absent
       \/ /\ branchTdd \in Files(SourceTddPool)
          /\ fsTdd \in Files(TargetTddPool)
          /\ branchCommits = Stored(<<cB>>)
          /\ fsCommits = Absent

\* Lines 124-131: any argument count but two is a usage error, exit status 1.
Main ==
    /\ pc = "main"
    /\ \E argc \in 0..3 :
         IF argc # 2
         THEN /\ pc' = "exit" /\ exitCode' = 1 /\ errs' = errs \cup {"usage"}
         ELSE /\ pc' = "commits" /\ UNCHANGED <<exitCode, errs>>
    /\ UNCHANGED <<files, commitLocals, tddLocals, run, faults, prev>>

\* Lines 47-78: read both arrays, resolve the HEAD record, append the new
\* records, sort.  An exception of the sort is caught nowhere: the process
\* ends with exit status 1.
MergeCommits ==
    /\ pc = "commits"
    /\ \E resolved \in BOOLEAN :
         LET source == readJsonFileFromBranch(branchCommits)
             target == readJsonFileFromFilesystem(fsCommits)
             src == ResolveCommitHead(source, resolved)
             merged == AppendNewCommits(src, target, TargetCommitShas(target))
         IN  /\ FindHead(source, "sha") = 0 \/ faults >= MaxFaults => resolved
             /\ faults' = IF resolved THEN faults ELSE faults + 1
             /\ sourceCommits' = src
             /\ newCommits' = Len(merged) - Len(target)
             /\ errs' = errs \cup (IF fsCommits.st = "bad" THEN {"read_commits"} ELSE {})
                             \cup (IF ResolveHeadThrows(source, resolved)
                                   THEN {"resolve_commits"} ELSE {})
             /\ IF SortCommitsThrows(merged)
                THEN /\ targetCommits' = merged
                     /\ pc' = "exit" /\ exitCode' = 1
                ELSE /\ targetCommits' = ArraySort(merged, "commits")
                     /\ pc' = "write_commits" /\ UNCHANGED exitCode
    /\ UNCHANGED <<files, tddLocals, run, prev>>

\* Lines 79-80.
WriteCommits ==
    /\ pc = "write_commits"
    /\ \E outcome \in WriteOutcomes :
         /\ faults >= MaxFaults => outcome = "ok"
         /\ faults' = IF outcome = "ok" THEN faults ELSE faults + 1
         /\ fsCommits' = writeJsonFile(fsCommits, targetCommits, outcome)
         /\ errs' = errs \cup (IF outcome = "ok" THEN {} ELSE {"write_commits"})
    /\ pc' = "tdd"
    /\ UNCHANGED <<branchCommits, branchTdd, fsTdd, commitLocals, tddLocals,
                   exitCode, run, prev>>

\* Lines 84-110.
MergeTddLog ==
    /\ pc = "tdd"
    /\ \E resolved \in BOOLEAN :
         LET source == readJsonFileFromBranch(branchTdd)
             target == readJsonFileFromFilesystem(fsTdd)
             src == ResolveTddHead(source, resolved)
             merged == AppendNewTddEntries(src, target, TargetTddEntries(target))
         IN  /\ FindHead(source, "commitId") = 0 \/ faults >= MaxFaults => resolved
             /\ faults' = IF resolved THEN faults ELSE faults + 1
             /\ sourceTddLog' = src
             /\ newTddEntries' = Len(merged) - Len(target)
             /\ errs' = errs \cup (IF fsTdd.st = "bad" THEN {"read_tdd"} ELSE {})
                             \cup (IF FindHead(source, "commitId") > 0 /\ ~resolved
                                   THEN {"resolve_tdd"} ELSE {})
             /\ targetTddLog' = ArraySort(merged, "tdd")
    /\ pc' = "write_tdd"
    /\ UNCHANGED <<files, commitLocals, exitCode, run, prev>>

\* Lines 111-121: the write, the closing messages, the normal end.
WriteTddLog ==
    /\ pc = "write_tdd"
    /\ \E outcome \in WriteOutcomes :
         /\ faults >= MaxFaults => outcome = "ok"
         /\ faults' = IF outcome = "ok" THEN faults ELSE faults + 1
         /\ fsTdd' = writeJsonFile(fsTdd, targetTddLog, outcome)
         /\ errs' = errs \cup (IF outcome = "ok" THEN {} ELSE {"write_tdd"})
    /\ pc' = "exit"
    /\ UNCHANGED <<branchCommits, branchTdd, fsCommits, commitLocals, tddLocals,
                   exitCode, run, prev>>

\* The tool is invoked again with the same two branches: a new process.
Rerun ==
    /\ pc = "exit" /\ run < MaxRuns
    /\ run' = run + 1
    /\ prev' = [errs |-> errs, exitCode |-> exitCode, ran |-> TRUE]
    /\ pc' = "main"
    /\ sourceCommits' = <<>> /\ targetCommits' = <<>> /\ newCommits' = 0
    /\ sourceTddLog' = <<>> /\ targetTddLog' = <<>> /\ newTddEntries' = 0
    /\ errs' = {} /\ exitCode' = 0
    /\ UNCHANGED <<files, faults>>

\* The closing message invites it: the source branch is deleted, and git show
\* finds neither file on it any more.
DeleteSourceBranch ==
    /\ pc = "exit" /\ run < MaxRuns
    /\ branchCommits # Absent \/ branchTdd # Absent
    /\ branchCommits' = Absent /\ branchTdd' = Absent
    /\ UNCHANGED <<fsCommits, fsTdd, pc, commitLocals, tddLocals, errs,
                   exitCode, run, faults, prev>>

Next ==
    \/ Main
    \/ MergeCommits
    \/ WriteCommits
    \/ MergeTddLog
    \/ WriteTddLog

Spec == Init /\ [][Next]_vars

\* Invocations in succession, from fewer stored contents.
RerunCommitPool == {cA2, cHead, cNoSha}
RerunTargetCommitPool == {cA, cTip}
RerunTddPool == {tHead, tFallback, tZero}
RerunTargetTddPool == {tA, tFallback}

InitAgain ==
    /\ Fresh
    /\ run = 1 /\ faults = 0 /\ prev = NoRun
    /\ \/ /\ branchCommits \in Files(RerunCommitPool)
          /\ fsCommits \in Files(RerunTargetCommitPool)
          /\ branchTdd = Stored(<<tFallback>>)
          /\ fsTdd = Absent
       \/ /\ branchTdd \in Files(RerunTddPool)
          /\ fsTdd \in Files(RerunTargetTddPool)
          /\ branchCommits = Stored(<<cNoSha, cA2>>)
          /\ fsCommits = Absent

NextAgain ==
    \/ Next
    \/ Rerun
    \/ DeleteSourceBranch

SpecAgain == InitAgain /\ [][NextAgain]_vars

-----------------------------------------------------------------------------
(* Vocabulary of the properties *)

\* The arrays the run read: the source branch is never written, and the target
\* file keeps what was read until the write of its merged array.
StoredSourceCommits == readJsonFileFromBranch(branchCommits)
StoredSourceTdd == readJsonFileFromBranch(branchTdd)
ReadTargetCommits == readJsonFileFromFilesystem(fsCommits)
ReadTargetTdd == readJsonFileFromFilesystem(fsTdd)

\* The merged array is in hand and about to be written.
CommitsMerged == pc = "write_commits"
TddMerged == pc = "write_tdd"

Count(arr, r) == Cardinality({i \in DOMAIN arr : arr[i] = r})
Range(arr) == {arr[i] : i \in DOMAIN arr}

\* Identities of the records of an array; a commit record without a truthy
\* sha has none.
CommitIds(arr) == {arr[i].sha : i \in {j \in DOMAIN arr : TruthyStr(arr[j], "sha")}}
TddIds(arr) == {TddUniqueId(arr[i]) : i \in DOMAIN arr}
CommitsWithId(arr, id) == {i \in DOMAIN arr : TruthyStr(arr[i], "sha") /\ arr[i].sha = id}
TddWithId(arr, id) == {i \in DOMAIN arr : TddUniqueId(arr[i]) = id}

DistinctCommitIds(arr) ==
    \A i, j \in DOMAIN arr :
        TruthyStr(arr[i], "sha") /\ TruthyStr(arr[j], "sha") /\ arr[i].sha = arr[j].sha
            => i = j
DistinctTddIds(arr) ==
    \A i, j \in DOMAIN arr : TddUniqueId(arr[i]) = TddUniqueId(arr[j]) => i = j

-----------------------------------------------------------------------------
(* C1 *)

\* C1: after a merge of either kind from a target whose identities are
\* pairwise distinct, no two records of the merged array share an identity
\* (duplicates within the source collapse to their first occurrence).
C1_NoDuplicateIdentities ==
    /\ CommitsMerged /\ DistinctCommitIds(ReadTargetCommits)
          => DistinctCommitIds(targetCommits)
    /\ TddMerged /\ DistinctTddIds(ReadTargetTdd)
          => DistinctTddIds(targetTddLog)

-----------------------------------------------------------------------------
(* C2 *)

\* C2: every run with two arguments ends normally with the TDD log merged and
\* written, whatever happened in the commit pipeline.
C2_TddLogAlwaysProcessed ==
    pc = "exit" /\ "usage" \notin errs
        => /\ exitCode = 0
           /\ "write_tdd" \notin errs => fsTdd = Stored(targetTddLog)

-----------------------------------------------------------------------------
(* C3 *)

\* The ordering key of a TDD entry as stated: commitTimestamp if present
\* (0 included), else timestamp.
StatedTddKey(e) == IF Has(e, "commitTimestamp") THEN e.commitTimestamp ELSE e.timestamp

\* C3: the array handed to the write is sorted non-decreasing: commit records
\* by the parsed commit.date, TDD entries by commitTimestamp if present, else
\* timestamp.
C3_WrittenArraysSorted ==
    /\ CommitsMerged =>
          \A i \in 1..(Len(targetCommits) - 1) :
              DateParse(targetCommits[i].commit.date)
                  <= DateParse(targetCommits[i + 1].commit.date)
    /\ TddMerged =>
          \A i \in 1..(Len(targetTddLog) - 1) :
              StatedTddKey(targetTddLog[i]) <= StatedTddKey(targetTddLog[i + 1])

-----------------------------------------------------------------------------
(* C4 *)

\* C4: the merged array holds one record for each identity of source and
\* target (its size is the number of distinct identities), the target's
\* records are all kept, and the reported count is the number appended.  The
\* target is taken with an identity on every record, pairwise distinct.
C4_MergeIsUnionByIdentity ==
    /\ CommitsMerged /\ DistinctCommitIds(ReadTargetCommits)
         /\ (\A i \in DOMAIN ReadTargetCommits : TruthyStr(ReadTargetCommits[i], "sha"))
          => LET ids == CommitIds(ReadTargetCommits) \cup CommitIds(sourceCommits)
             IN  /\ Len(targetCommits) = Cardinality(ids)
                 /\ \A id \in ids : Cardinality(CommitsWithId(targetCommits, id)) = 1
                 /\ Range(ReadTargetCommits) \subseteq Range(targetCommits)
                 /\ newCommits = Len(targetCommits) - Len(ReadTargetCommits)
    /\ TddMerged /\ DistinctTddIds(ReadTargetTdd)
          => LET ids == TddIds(ReadTargetTdd) \cup TddIds(sourceTddLog)
             IN  /\ Len(targetTddLog) = Cardinality(ids)
                 /\ \A id \in ids : Cardinality(TddWithId(targetTddLog, id)) = 1
                 /\ Range(ReadTargetTdd) \subseteq Range(targetTddLog)
                 /\ newTddEntries = Len(targetTddLog) - Len(ReadTargetTdd)

-----------------------------------------------------------------------------
(* C5 *)

HeadIndices(arr, field) ==
    {i \in DOMAIN arr : Has(arr[i], field) /\ arr[i][field] = "HEAD"}
FirstHead(arr, field) ==
    CHOOSE i \in HeadIndices(arr, field) : \A j \in HeadIndices(arr, field) : i <= j

\* In a first run, the one call that can have thrown before the commit array
\* is written is git rev-parse of line 56.
CommitRevParseThrew == faults > 0
TddRevParseThrew == "resolve_tdd" \in errs

\* new is (the text of old before its first '/commit/') + '/commit/' + realSha.
RewrittenUrl(old, new) ==
    \E k \in 0..Len(old) :
        /\ k = Len(old) \/ old[k + 1] = "/commit/"
        /\ \A j \in 1..k : old[j] # "/commit/"
        /\ new = SubSeq(old, 1, k) \o <<"/commit/", realSha>>

\* b is a with the one field f set to realSha.
SameBut(a, b, f) ==
    /\ DOMAIN a = DOMAIN b
    /\ b[f] = realSha
    /\ \A g \in DOMAIN a \ {f} : a[g] = b[g]

-----------------------------------------------------------------------------
(* C6 *)

Sorted(arr, kind) ==
    \A i \in 1..(Len(arr) - 1) : Compare(kind, arr[i], arr[i + 1]) <= 0

\* b is a without its element h.
Without(a, h, b) ==
    /\ Len(b) = Len(a) - 1
    /\ \A i \in 1..(h - 1) : b[i] = a[i]
    /\ \A i \in h..Len(b) : b[i] = a[i + 1]

\* C6: when git rev-parse throws for a "HEAD" record, that one record leaves
\* the source array and the merge goes on: the output holds nothing but target
\* records and the remaining source records, every remaining source identity
\* is in it, it is sorted and reaches the write; the run never ends abnormally
\* for that failure, and the TDD log is still merged and written.
C6_FailedResolutionDropsOneRecord ==
    /\ CommitsMerged /\ CommitRevParseThrew
          => /\ Without(StoredSourceCommits, FirstHead(StoredSourceCommits, "sha"),
                        sourceCommits)
             /\ \A r \in Range(targetCommits) :
                    Count(targetCommits, r)
                        <= Count(ReadTargetCommits, r) + Count(sourceCommits, r)
             /\ CommitIds(sourceCommits) \subseteq CommitIds(targetCommits)
             /\ Sorted(targetCommits, "commits")
    /\ TddMerged /\ TddRevParseThrew
          => /\ Without(StoredSourceTdd, FirstHead(StoredSourceTdd, "commitId"),
                        sourceTddLog)
             /\ \A r \in Range(targetTddLog) :
                    Count(targetTddLog, r)
                        <= Count(ReadTargetTdd, r) + Count(sourceTddLog, r)
             /\ TddIds(sourceTddLog) \subseteq TddIds(targetTddLog)
             /\ Sorted(targetTddLog, "tdd")
    /\ pc = "exit" /\ exitCode # 0 /\ "usage" \notin errs
          => /\ Len(targetCommits) >= 2
             /\ \E i \in DOMAIN targetCommits : ~Has(targetCommits[i], "commit")
    /\ pc = "exit" /\ exitCode = 0 /\ "resolve_commits" \in errs
          => /\ TddIds(sourceTddLog) \subseteq TddIds(targetTddLog)
             /\ "write_tdd" \notin errs => fsTdd = Stored(targetTddLog)

C6_Witness ==
    /\ pc = "exit" /\ exitCode = 0 /\ "resolve_commits" \in errs
    /\ StoredSourceCommits = <<cHead, cA2>>
    /\ sourceCommits = <<cA2>>
    /\ targetCommits = <<cA2>>
    /\ fsTdd = Stored(<<tFallback>>)

-----------------------------------------------------------------------------
(* C7 *)

\* C7 as stated: no record of the array handed to the commit write has an
\* absent or falsy sha.
C7_NoRecordWithoutShaWritten ==
    CommitsMerged => \A i \in DOMAIN targetCommits : TruthyStr(targetCommits[i], "sha")

\* C7 as amended: no source record with an absent or falsy sha is appended;
\* the records without one in the merged array are those the target file
\* already held, each as often as it held it.
C7_NoSourceRecordWithoutShaAppended ==
    CommitsMerged =>
        \A r \in Range(targetCommits) \cup Range(sourceCommits) :
            ~TruthyStr(r, "sha")
                => Count(targetCommits, r) = Count(ReadTargetCommits, r)

C7_Witness ==
    /\ CommitsMerged
    /\ sourceCommits = <<cNoSha, cEmptySha>>
    /\ ReadTargetCommits = <<cA, cNoSha>>
    /\ Count(targetCommits, cNoSha) = 1
    /\ newCommits = 0

-----------------------------------------------------------------------------
(* C9 *)

\* C9: a write that fails leaves the target file as it was, and the run goes
\* on: to the TDD log after the commit write, to a normal end after the TDD
\* write.
C9_FailedWriteLeavesFile ==
    [][/\ "write_commits" \in errs' \ errs => fsCommits' = fsCommits /\ pc' = "tdd"
       /\ "write_tdd" \in errs' \ errs
             => fsTdd' = fsTdd /\ pc' = "exit" /\ exitCode' = 0]_vars

-----------------------------------------------------------------------------
(* C8 *)

\* The previous invocation went through and wrote the file of the kind.
PreviousWroteCommits ==
    prev.ran /\ prev.exitCode = 0 /\ "write_commits" \notin prev.errs
PreviousWroteTdd ==
    prev.ran /\ prev.exitCode = 0 /\ "write_tdd" \notin prev.errs

\* C8: a target file that holds the array a merge wrote, merged with an empty
\* source array, is handed to the write as the same records in the same order,
\* with zero records counted as appended.
C8_EmptySourceLeavesMergedArray ==
    /\ CommitsMerged /\ PreviousWroteCommits /\ StoredSourceCommits = <<>>
          => /\ fsCommits = Stored(targetCommits)
             /\ newCommits = 0
    /\ TddMerged /\ PreviousWroteTdd /\ StoredSourceTdd = <<>>
          => /\ fsTdd = Stored(targetTddLog)
             /\ newTddEntries = 0

\* The first run appended the resolved HEAD record, which bears the instant
\* of the target's record; the branch was deleted and the tool run again.
C8_Witness ==
    /\ CommitsMerged /\ PreviousWroteCommits /\ run = 2
    /\ branchCommits = Absent
    /\ Len(targetCommits) = 2
    /\ targetCommits[1] = cA
    /\ targetCommits[2].sha = realSha
    /\ CompareCommits(targetCommits[1], targetCommits[2]) = 0

-----------------------------------------------------------------------------
(* C10 *)

\* C10: when the tool is run again on the same branches after a run that wrote
\* both files, and git rev-parse fares as it did in that run, the second run
\* appends nothing and hands to each write the array the file already holds.
C10_SecondRunAppendsNothing ==
    /\ CommitsMerged /\ PreviousWroteCommits /\ PreviousWroteTdd
         /\ ("resolve_commits" \in errs) = ("resolve_commits" \in prev.errs)
          => /\ newCommits = 0
             /\ fsCommits = Stored(targetCommits)
    /\ TddMerged /\ PreviousWroteCommits /\ PreviousWroteTdd
         /\ ("resolve_tdd" \in errs) = ("resolve_tdd" \in prev.errs)
          => /\ newTddEntries = 0
             /\ fsTdd = Stored(targetTddLog)

\* Second run over a source holding a HEAD entry and a fallback-keyed entry,
\* both merged by the first run.
C10_Witness ==
    /\ TddMerged /\ PreviousWroteCommits /\ PreviousWroteTdd /\ run = 2
    /\ "resolve_tdd" \notin errs /\ "resolve_tdd" \notin prev.errs
    /\ StoredSourceTdd = <<tHead, tFallback>>
    /\ Len(targetTddLog) = 3
    /\ newTddEntries = 0
    /\ StoredSourceCommits = <<cNoSha, cA2>>
    /\ fsCommits = Stored(<<cA2>>)

====
